---- MODULE Spec2Model ----
(***************************************************************************)
(* Model of gochimp3's request pipeline (src/api.go): endpoint derivation  *)
(* in New, the retry loop of API.Request, one attempt of API.rawRequest,   *)
(* and parseAPIError.                                                      *)
(*                                                                         *)
(* Strings are sequences of one-character strings.  JSON texts are         *)
(* modelled by their parse result (or by the reason they do not parse).    *)
(***************************************************************************)
EXTENDS Integers, Sequences, FiniteSets, TLC

VARIABLES
    pc,         \* where the caller / Request is
    apiKey,     \* the credential handed to New
    api,        \* the API value New returned
    call,       \* the arguments of the Request call in progress
    delay,      \* the delay argument handed to ptk.RetryCtx, in seconds
    attempts,   \* attempts of rawRequest made by the call in progress
    err,        \* the error the last attempt returned (NoErr for nil)
    ret,        \* what Request returned
    dest,       \* the value the response destination points to
    destBefore, \* dest as it was when the last attempt started
    last,       \* what the last attempt did (request sent, outcome, decoding)
    waited,     \* how long the last backoff wait took, in seconds
    onlyNet,    \* every attempt before the last one failed in the network
    cancel,     \* an external cancellation signal has been raised
    inFlight,   \* requests of the call handed to the transport, not answered
    openBodies, \* response bodies of the call opened and not closed
    got2xx,     \* some attempt of the call received a 2xx status
    okRet,      \* the bool RequestOk returned
    other       \* a second call that runs on the same API value

vars == <<pc, apiKey, api, call, delay, attempts, err, ret, dest,
          destBefore, last, waited, onlyNet, cancel, inFlight, openBodies,
          got2xx, okRet, other>>

----------------------------------------------------------------------------
(* Bounds *)

\* longest credential string drawn for New
MaxKeyLen == 4

----------------------------------------------------------------------------
(* Strings *)

\* the characters credentials are drawn from: word characters, the hyphen,
\* and one character that is neither
KeyChars == {"u", "6", "-", "."}

\* \w of Go's regexp: [0-9A-Za-z_]
IsWordChar(c) == c \in {"u", "s", "6", "_", "a", "b", "0", "1", "3"}

RECURSIVE StringsUpTo(_)
StringsUpTo(n) ==
    IF n = 0 THEN {<<>>}
    ELSE LET shorter == StringsUpTo(n - 1)
         IN  shorter \cup {Append(s, c) : s \in {t \in shorter : Len(t) = n - 1},
                                          c \in KeyChars}

\* const URIFormat = "%s.api.mailchimp.com"
URIFormat(dc) ==
    dc \o <<".", "a", "p", "i", ".", "m", "a", "i", "l", "c", "h", "i", "m",
            "p", ".", "c", "o", "m">>

\* const Version = "/3.0"
Version == <<"/", "3", ".", "0">>

\* does the pattern [^-]\w+$ match s starting at position i: one character
\* that is not a hyphen, then one or more word characters up to the end
DatacenterMatchAt(s, i) ==
    /\ s[i] # "-"
    /\ i + 1 <= Len(s)
    /\ \A j \in (i + 1)..Len(s) : IsWordChar(s[j])

\* DatacenterRegex.FindString(s): the text of the leftmost match, "" if none
DatacenterRegexFindString(s) ==
    LET starts == {i \in 1..Len(s) : DatacenterMatchAt(s, i)}
    IN  IF starts = {} THEN <<>>
        ELSE LET i == CHOOSE k \in starts : \A m \in starts : k <= m
             IN  SubSeq(s, i, Len(s))

\* url.URL{Scheme: "https", Host: host, Path: Version}.String()
URLString(host) == <<"h", "t", "t", "p", "s", ":", "/", "/">> \o host \o Version

\* the endpoint New computes from the credential
NewEndpoint(key) == URLString(URIFormat(DatacenterRegexFindString(key)))

----------------------------------------------------------------------------
(* Request URL and query string: net/url as rawRequest uses it *)

\* the paths callers pass to Request: a bare path, and one that already
\* carries a query string
Paths == { <<"/", "l">>, <<"/", "l", "?", "f", "=", "x">> }

\* the index of the first occurrence of character c in s, 0 if none
IndexOf(s, c) ==
    LET hits == {i \in 1..Len(s) : s[i] = c}
    IN  IF hits = {} THEN 0 ELSE CHOOSE i \in hits : \A j \in hits : i <= j

\* requestURL := fmt.Sprintf("%s%s", api.endpoint, path)
RequestURL(ep, path) == ep \o path

\* url.Parse as http.NewRequest applies it: RawQuery is what follows the
\* first "?"
URLRawQuery(url) ==
    LET q == IndexOf(url, "?")
    IN  IF q = 0 THEN <<>> ELSE SubSeq(url, q + 1, Len(url))

\* url.QueryEscape, one character at a time
EscapeChar(c) ==
    CASE c = " " -> <<"+">>
      [] c = "+" -> <<"%", "2", "B">>
      [] c = "&" -> <<"%", "2", "6">>
      [] c = "=" -> <<"%", "3", "D">>
      [] OTHER   -> <<c>>

RECURSIVE QueryEscape(_)
QueryEscape(s) ==
    IF s = <<>> THEN <<>> ELSE EscapeChar(Head(s)) \o QueryEscape(Tail(s))

\* url.QueryUnescape
RECURSIVE QueryUnescape(_)
QueryUnescape(s) ==
    IF s = <<>> THEN <<>>
    ELSE IF Head(s) = "+" THEN <<" ">> \o QueryUnescape(Tail(s))
    ELSE IF Head(s) = "%" /\ Len(s) >= 3
         THEN LET code == SubSeq(s, 2, 3)
                  c    == CASE code = <<"2", "B">> -> "+"
                            [] code = <<"2", "6">> -> "&"
                            [] code = <<"3", "D">> -> "="
                            [] OTHER               -> "?"
              IN  <<c>> \o QueryUnescape(SubSeq(s, 4, Len(s)))
    ELSE <<Head(s)>> \o QueryUnescape(Tail(s))

\* strings.Split(s, "&")
RECURSIVE SplitAmp(_)
SplitAmp(s) ==
    LET i == IndexOf(s, "&")
    IN  IF i = 0 THEN <<s>>
        ELSE <<SubSeq(s, 1, i - 1)>> \o SplitAmp(SubSeq(s, i + 1, Len(s)))

\* url.Values is map[string][]string: a function from the keys present to
\* the sequence of their values
EmptyValues == [k \in {} |-> <<>>]

ValuesAdd(v, k, x) ==
    [j \in DOMAIN v \cup {k} |->
        IF j = k THEN (IF k \in DOMAIN v THEN Append(v[k], x) ELSE <<x>>)
        ELSE v[j]]

\* url.Values.Set
ValuesSet(v, k, x) == [j \in DOMAIN v \cup {k} |-> IF j = k THEN <<x>> ELSE v[j]]

\* url.ParseQuery: "&"-separated key=value settings, each part unescaped
RECURSIVE ParseSegments(_, _)
ParseSegments(segs, v) ==
    IF segs = <<>> THEN v
    ELSE LET seg == Head(segs)
             e   == IndexOf(seg, "=")
             k   == IF e = 0 THEN seg ELSE SubSeq(seg, 1, e - 1)
             x   == IF e = 0 THEN <<>> ELSE SubSeq(seg, e + 1, Len(seg))
         IN  IF seg = <<>> THEN ParseSegments(Tail(segs), v)
             ELSE ParseSegments(Tail(segs),
                                ValuesAdd(v, QueryUnescape(k), QueryUnescape(x)))

ParseQuery(raw) == ParseSegments(SplitAmp(raw), EmptyValues)

\* byte order of the characters that occur in keys
CharRank(c) ==
    CASE c = "a" -> 1 [] c = "b" -> 2 [] c = "f" -> 3 [] c = "r" -> 4
      [] c = "x" -> 5 [] c = "z" -> 6 [] OTHER -> 0

RECURSIVE StrLess(_, _)
StrLess(a, b) ==
    IF b = <<>> THEN FALSE
    ELSE IF a = <<>> THEN TRUE
    ELSE IF Head(a) = Head(b) THEN StrLess(Tail(a), Tail(b))
    ELSE CharRank(Head(a)) < CharRank(Head(b))

RECURSIVE JoinValues(_, _)
JoinValues(k, xs) ==
    IF xs = <<>> THEN <<>>
    ELSE <<QueryEscape(k) \o <<"=">> \o QueryEscape(Head(xs))>>
         \o JoinValues(k, Tail(xs))

RECURSIVE EncodeKeys(_, _)
EncodeKeys(v, keys) ==
    IF keys = {} THEN <<>>
    ELSE LET k == CHOOSE m \in keys : \A n \in keys \ {m} : StrLess(m, n)
         IN  JoinValues(k, v[k]) \o EncodeKeys(v, keys \ {k})

RECURSIVE JoinAmp(_)
JoinAmp(segs) ==
    IF segs = <<>> THEN <<>>
    ELSE IF Len(segs) = 1 THEN segs[1]
    ELSE segs[1] \o <<"&">> \o JoinAmp(Tail(segs))

\* url.Values.Encode: key=value pairs sorted by key, joined by "&"
ValuesEncode(v) == JoinAmp(EncodeKeys(v, DOMAIN v))

\* the loop without its test for the empty string
RECURSIVE SetParamsKeepingEmpty(_, _, _)
SetParamsKeepingEmpty(v, m, keys) ==
    IF keys = {} THEN v
    ELSE LET k == CHOOSE j \in keys : TRUE
         IN  SetParamsKeepingEmpty(ValuesSet(v, k, m[k]), m, keys \ {k})

\* the loop of lines 108-112: every entry of the mapping with a non-empty
\* value is Set
RECURSIVE SetParams(_, _, _)
SetParams(v, m, keys) ==
    IF keys = {} THEN v
    ELSE LET k == CHOOSE j \in keys : TRUE
         IN  SetParams(IF m[k] # <<>> THEN ValuesSet(v, k, m[k]) ELSE v,
                       m, keys \ {k})

\* lines 107-113: the RawQuery after the params have been applied
QueryWithParams(rawQuery, m) ==
    ValuesEncode(SetParams(ParseQuery(rawQuery), m, DOMAIN m))

----------------------------------------------------------------------------
(* JSON texts and encoding/json *)

JSONFields == {"id", "name", "status", "type", "title", "detail"}

\* a member of a JSON object: absent, a string or a number (t is "null"
\* for a member given as null)
Absent == [t |-> "absent", s |-> "", n |-> 0]
JS(x)  == [t |-> "str", s |-> x, n |-> 0]
JN(k)  == [t |-> "num", s |-> "", n |-> k]

NoFields == [x \in JSONFields |-> Absent]

\* a byte slice read as JSON text: k is "empty" (no bytes), "invalid" (not
\* JSON), "null", "array" or "object"; f gives an object's members
Text(k) == [k |-> k, f |-> NoFields]
Obj(g)  == [k |-> "object",
            f |-> [x \in JSONFields |-> IF x \in DOMAIN g THEN g[x] ELSE Absent]]

BodyEmpty    == Text("empty")
BodyInvalid  == Text("invalid")
BodyNull     == Text("null")
BodyArray    == Text("array")
\* {"id":"1"}
BodyList     == Obj([id |-> JS("1")])
\* {"id":"2","name":7}
BodyBadName  == Obj([id |-> JS("2"), name |-> JN(7)])
\* {"status":404,"type":"t","title":"T","detail":"d"}
BodyAPIError == Obj([status |-> JN(404), type |-> JS("t"), title |-> JS("T"),
                     detail |-> JS("d")])
\* {"status":"x","title":"T"}
BodyBadStatus == Obj([status |-> JS("x"), title |-> JS("T")])

Bodies == {BodyEmpty, BodyInvalid, BodyNull, BodyArray, BodyList, BodyBadName,
           BodyAPIError, BodyBadStatus}

\* the struct the response destination points to
DestType == [id |-> "str", name |-> "str"]

\* type APIError: status, type, title, detail
APIErrorType == [status |-> "num", type |-> "str", title |-> "str",
                 detail |-> "str"]

\* the zero value of a struct type
ZeroOf(T) == [x \in DOMAIN T |-> IF T[x] = "str" THEN JS("") ELSE JN(0)]

\* json.Unmarshal(data, &v) for a struct v of type T: e is "" (nil),
\* "syntax" (*json.SyntaxError; nothing is stored) or "type"
\* (*json.UnmarshalTypeError; the members that fit are stored all the same)
Unmarshal(data, T, v) ==
    CASE data.k \in {"empty", "invalid"} -> [e |-> "syntax", v |-> v]
      [] data.k = "null"  -> [e |-> "", v |-> v]
      [] data.k = "array" -> [e |-> "type", v |-> v]
      [] OTHER ->
           [e |-> IF \E x \in DOMAIN T : data.f[x].t \notin {"absent", "null", T[x]}
                  THEN "type" ELSE "",
            v |-> [x \in DOMAIN T |->
                      IF data.f[x].t = T[x] THEN data.f[x] ELSE v[x]]]

----------------------------------------------------------------------------
(* Errors *)

\* an error value: its kind, its text, and for an *APIError its fields
MkErr(kind, msg) == [kind |-> kind, msg |-> msg, api |-> ZeroOf(APIErrorType)]
NoErr == MkErr("nil", "")

\* func parseAPIError(data []byte) error
parseAPIError(data) ==
    LET u == Unmarshal(data, APIErrorType, ZeroOf(APIErrorType))
    IN  IF u.e # "" THEN MkErr(u.e, "")
        ELSE [kind |-> "api", msg |-> "", api |-> u.v]

----------------------------------------------------------------------------
(* One attempt: API.rawRequest *)

\* what the RoundTripper does with one request: fail, answer with a body
\* that cannot be read to its end, or answer with a status and a body
NetErrs  == {"timeout", "refused"}
Statuses == {199, 200, 299, 300, 404}

OutcomesOf(SS, BS) ==
    [kind : {"neterr"}, e : NetErrs, status : {0}, body : {BodyEmpty}]
    \cup [kind : {"readerr"}, e : {""}, status : {200}, body : {BodyEmpty}]
    \cup [kind : {"resp"}, e : {""}, status : SS, body : BS]

Outcomes == OutcomesOf(Statuses, Bodies)

\* the outcomes drawn for the attempts of a retried call
RetryOutcomes ==
    OutcomesOf({200, 404},
               {BodyEmpty, BodyInvalid, BodyList, BodyBadName, BodyAPIError})

\* no request reached the transport
NoOutcome == [kind |-> "none", e |-> "", status |-> 0, body |-> BodyEmpty]

\* http.NewRequest rejects a method that is not a token
ValidMethod(m) == m \in {"GET", "POST", "PATCH", "PUT", "DELETE"}

\* a json.Marshal that encodes every value
MarshalNeverFails(body) == FALSE

\* json.Marshal(body) fails for a value that has no JSON form
MarshalFails(body) == body = "unserializable"

\* reflect.ValueOf(x).IsNil() panics unless x is a chan, func, interface,
\* map, pointer or slice; of these a typed-nil pointer is nil
IsNilPanics(kind) == kind = "value"
IsNil(kind) == kind = "typednil"

\* the status test with 200 left out
Is2xxAbove200(status) == status > 200 /\ status < 300

\* the status test with 300 let in
Is2xxUpTo300(status) == status >= 200 /\ status <= 300

\* resp.StatusCode >= 200 && resp.StatusCode < 300
Is2xx(status) == status >= 200 /\ status < 300

\* the dump that leaves the body it read drained
DumpResponseDraining(body) == BodyEmpty

\* httputil.DumpResponse(resp, true) (line 132) reads the body and puts a
\* copy of it in its place: the body ioutil.ReadAll finds afterwards.  A body
\* that fails while it is dumped stays in place and fails again in ReadAll
\* (the read error of a net/http response body is sticky), so that the
\* outcome "readerr" is the same with and without the dump.
DumpResponse(body) == body

\* a Close that runs only at the end of a successful attempt
CloseOnSuccess(r) ==
    [r EXCEPT !.closed = r.opened /\ r.err.kind = "nil" /\ ~r.panic]

\* defer resp.Body.Close() (line 129): the body of a response is closed
\* whenever the attempt ends, by a return or by a panic
DeferredClose(r) == [r EXCEPT !.closed = r.opened]

\* the endpoint derived again from the key the API value holds now
EndpointFromKey(a) == NewEndpoint(a.Key)

\* the endpoint an attempt uses: the field New has set (line 79)
Endpoint(a) == a.endpoint

\* the line log.Printf writes when cond holds
LogIf(cond, line) == IF cond THEN <<line>> ELSE <<>>

\* a handling that decodes every body, the error payload of a non-2xx
\* response too, into the destination
HandleResponseDecodingErrors(r, c, d, o) ==
    LET u == Unmarshal(o.body, DestType, d)
    IN  [r EXCEPT !.dest = IF c.response = "ptr" THEN u.v ELSE d,
                  !.err = IF Is2xx(o.status) THEN NoErr
                          ELSE parseAPIError(o.body)]

\* lines 141-156: what an attempt does with a response that was read
HandleResponse(r, c, d, o) ==
    IF Is2xx(o.status)
    THEN IF c.response = "nil" THEN r
         ELSE IF IsNilPanics(c.response) THEN [r EXCEPT !.panic = TRUE]
         ELSE IF IsNil(c.response) \/ o.body.k = "empty" THEN r
         ELSE LET u == Unmarshal(o.body, DestType, d)
              IN  [r EXCEPT !.unmarshalled = TRUE,
                            !.dest = u.v,
                            !.err = IF u.e # "" THEN MkErr(u.e, "") ELSE NoErr]
    ELSE [r EXCEPT !.err = parseAPIError(o.body),
                   !.log = r.log \o <<"MAILCHIMP ERROR">>]

\* func (api API) rawRequest(method, path, params, body, response) error,
\* given the destination's value d and the transport's outcome o
rawRequest(a, c, d, o) ==
    LET url  == RequestURL(Endpoint(a), c.path)
        base == [err |-> NoErr, dest |-> d, panic |-> FALSE, url |-> url,
                 built |-> FALSE, paramsCalled |-> FALSE, rawQuery |-> <<>>,
                 sent |-> FALSE, outcome |-> NoOutcome, unmarshalled |-> FALSE,
                 opened |-> FALSE, closed |-> FALSE,
                 log |-> LogIf(a.Debug, "Requesting")]
    IN  IF c.body # "nil" /\ MarshalFails(c.body)
        THEN [base EXCEPT !.err = MkErr("marshal", "")]
        ELSE IF ~ValidMethod(c.method)
        THEN [base EXCEPT
                 !.err = MkErr("newrequest", ""),
                 !.log = base.log \o LogIf(a.Debug /\ c.body # "nil", "Adding body")]
        ELSE IF c.params.kind # "nil" /\ IsNilPanics(c.params.kind)
        THEN [base EXCEPT
                 !.built = TRUE, !.panic = TRUE,
                 !.log = base.log \o LogIf(a.Debug /\ c.body # "nil", "Adding body")]
        ELSE LET use == c.params.kind # "nil" /\ ~IsNil(c.params.kind)
                 req == [base EXCEPT
                            !.built = TRUE,
                            !.paramsCalled = use,
                            !.rawQuery = IF use
                                         THEN QueryWithParams(URLRawQuery(url),
                                                              c.params.m)
                                         ELSE URLRawQuery(url),
                            !.sent = TRUE,
                            !.outcome = o,
                            !.log = base.log
                                    \o LogIf(a.Debug /\ c.body # "nil", "Adding body")
                                    \o LogIf(a.Debug /\ use, "Adding query params")
                                    \o LogIf(a.Debug, "DumpRequestOut")]
                 \* the response client.Do returned, as lines 131-136 see it
                 resp == [req EXCEPT
                            !.opened = TRUE,
                            !.log = req.log \o LogIf(a.Debug, "DumpResponse")]
                 data == IF a.Debug THEN DumpResponse(o.body) ELSE o.body
             IN  IF o.kind = "neterr" THEN [req EXCEPT !.err = MkErr("net", o.e)]
                 ELSE IF o.kind = "readerr"
                 THEN DeferredClose([resp EXCEPT !.err = MkErr("read", "")])
                 ELSE DeferredClose(
                          HandleResponse(resp, c, d, [o EXCEPT !.body = data]))

----------------------------------------------------------------------------
(* The client value *)

\* func New(apiKey string) *API
New(key) == [Key |-> key, User |-> "gochimp3", Timeout |-> 0, Debug |-> FALSE,
             Transport |-> "default", endpoint |-> NewEndpoint(key)]

\* the API value before New has run
NoAPI == [Key |-> <<>>, User |-> "", Timeout |-> 0, Debug |-> FALSE,
          Transport |-> "default", endpoint |-> <<>>]

\* the credential of the client the requests are made with: "ab-us6"
ClientKey == <<"a", "b", "-", "u", "s", "6">>

----------------------------------------------------------------------------
(* The retry loop: API.Request *)

\* a retry count one too large
RequestAttemptsOneMore == 5 + 1

\* the attempts argument Request hands to ptk.RetryCtx
RequestAttempts == 5

\* time.Minute, in seconds
Minute == 60

\* rand.Intn(n): some integer of [0, n)
RandIntn(n) == 0..(n - 1)

\* Random with max taken as inclusive
RandomInclusive(min, max) == {r + min : r \in RandIntn(max - min + 1)}

\* func Random(min, max int) time.Duration: the values it can return
Random(min, max) == {r + min : r \in RandIntn(max - min)}

\* the delay argument of line 65: time.Duration(Random(1, 10) * time.Minute)
RequestDelays == {d * Minute : d \in Random(1, 10)}

\* the context of line 59, context.Background(), is never done, whatever
\* signal has been raised
CtxDone(signal) == FALSE

\* the function wrapping the error it hands on
RequestFnWrapping(e) == IF e # NoErr THEN MkErr("wrapped", e.kind) ELSE NoErr

\* the function giving up on an error of the API: it reports it as done
RequestFnDroppingAPIError(e) == IF e # NoErr /\ e.kind # "api" THEN e ELSE NoErr

\* the function Request hands to ptk.RetryCtx (lines 59-65) returns the
\* error of rawRequest as it is, and nil for nil
RequestFn(e) == IF e # NoErr THEN e ELSE NoErr

\* ptk.RetryCtx after fn returned e on attempt number n of max: return nil,
\* return the error, or wait and call fn again
RetryCtxNext(e, n, max) ==
    IF e = NoErr THEN "ok" ELSE IF n >= max THEN "fail" ELSE "wait"

\* the arguments of a Request call
Methods == {"GET", "BAD METHOD"}
ParamsNil      == [kind |-> "nil", m |-> EmptyValues]
\* {"f": "", "br": "bz"}
ParamsFooBar   == [kind |-> "ptr",
                   m |-> [k \in {<<"f">>, <<"b", "r">>} |->
                            IF k = <<"f">> THEN <<>> ELSE <<"b", "z">>]]
\* body: nil, a value json.Marshal encodes, or one it cannot encode
RequestBodies  == {"nil", "ok", "unserializable"}
\* params and response are interface values: untyped nil, a typed-nil
\* pointer, a non-nil pointer, or a non-pointer value such as a struct
ResponseKinds  == {"nil", "typednil", "ptr", "value"}

\* what the destination holds when Request is called
DestInit == [id |-> JS("old"), name |-> JS("")]

NoCall == [fn |-> "", method |-> "", path |-> <<>>, params |-> ParamsNil,
           body |-> "nil", response |-> "nil"]
NoLast == [err |-> NoErr, dest |-> DestInit, panic |-> FALSE, url |-> <<>>,
           built |-> FALSE, paramsCalled |-> FALSE, rawQuery |-> <<>>,
           sent |-> FALSE, outcome |-> NoOutcome, unmarshalled |-> FALSE,
           opened |-> FALSE, closed |-> FALSE, log |-> <<>>]

\* a caller calls api.Request(method, path, params, body, response); the
\* delay is computed before ptk.RetryCtx is entered
\* no second call is running
NoOther == [pc |-> "idle", call |-> NoCall, delay |-> 0, attempts |-> 0,
            err |-> NoErr, ret |-> NoErr, dest |-> DestInit,
            destBefore |-> DestInit, last |-> NoLast]

\* a method with a pointer receiver that keeps the URL of the request
CallerAPIKeepingURL(a, r) == [a EXCEPT !.endpoint = r.url]

\* Request and rawRequest have the value receiver (api API), lines 57 and
\* 73: they work on a copy, and the API value of the caller stays as it is
CallerAPI(a, r) == a

\* a RequestOk that reports success whatever Request returned
RequestOkAlwaysTrue(e) == TRUE

\* lines 161-165: false with the error of Request, true with nil
RequestOkBool(e) == e = NoErr

StartRequest(fn, MS, PathS, PS, BS, RS) ==
    /\ pc = "idle"
    /\ \E m \in MS, path \in PathS, p \in PS, b \in BS, r \in RS :
          call' = [fn |-> fn, method |-> m, path |-> path,
                   params |-> p, body |-> b, response |-> r]
    /\ \E d \in RequestDelays : delay' = d
    /\ pc' = "attempt"
    /\ attempts' = 0
    /\ err' = NoErr
    /\ ret' = NoErr
    /\ dest' = DestInit
    /\ destBefore' = DestInit
    /\ last' = NoLast
    /\ waited' = 0
    /\ onlyNet' = TRUE
    /\ cancel' = FALSE
    /\ inFlight' = 0
    /\ openBodies' = 0
    /\ got2xx' = FALSE
    /\ okRet' = FALSE
    /\ UNCHANGED <<apiKey, api, other>>

\* the attempt ends: rawRequest returns r, or panics
EndAttempt(r) ==
    /\ last' = r
    /\ dest' = r.dest
    /\ err' = RequestFn(r.err)
    /\ pc' = IF r.panic THEN "panic" ELSE "returned"
    /\ openBodies' = openBodies + (IF r.opened /\ ~r.closed THEN 1 ELSE 0)
    /\ api' = CallerAPI(api, r)

\* an attempt that hands the request to the transport and returns at once,
\* as after a timeout, without waiting for client.Do to come back
SendRequestAsync ==
    /\ pc = "attempt"
    /\ LET r == rawRequest(api, call, dest,
                           [NoOutcome EXCEPT !.kind = "neterr",
                                             !.e = "timeout"])
       IN  /\ EndAttempt(r)
           /\ inFlight' = inFlight + (IF r.sent THEN 1 ELSE 0)
    /\ destBefore' = dest
    /\ attempts' = attempts + 1
    /\ onlyNet' = (attempts = 0 \/ (onlyNet /\ err.kind = "net"))
    /\ UNCHANGED <<apiKey, call, delay, ret, waited, cancel, got2xx, okRet,
                   other>>

\* an attempt that calls Random again for the wait that follows it
DelayInAttemptRedrawn(d) == RequestDelays

\* the delay is an argument of ptk.RetryCtx (line 65), evaluated when Request
\* calls it: the closure of an attempt (lines 60-64) leaves it as it is
DelayInAttempt(d) == {d}

\* ptk.RetryCtx calls fn (lines 60-64): rawRequest runs up to client.Do
\* (lines 73-125), where it hands the request to the transport and waits
\* for the answer, or ends before it has anything to send
SendRequest ==
    /\ pc = "attempt"
    /\ LET r == rawRequest(api, call, dest, NoOutcome)
       IN  IF r.sent
           THEN /\ pc' = "inflight"
                /\ inFlight' = inFlight + 1
                /\ UNCHANGED <<api, last, dest, err, openBodies>>
           ELSE /\ EndAttempt(r)
                /\ UNCHANGED inFlight
    /\ destBefore' = dest
    /\ attempts' = attempts + 1
    /\ onlyNet' = (attempts = 0 \/ (onlyNet /\ err.kind = "net"))
    /\ delay' \in DelayInAttempt(delay)
    /\ UNCHANGED <<apiKey, call, ret, waited, cancel, got2xx, okRet, other>>

\* client.Do returns (line 125) and rawRequest runs to its end (lines
\* 125-156)
RawRequest(OS) ==
    /\ pc = "inflight"
    /\ \E o \in OS :
          /\ EndAttempt(rawRequest(api, call, dest, o))
          /\ got2xx' = (got2xx \/ (o.kind # "neterr" /\ o.status \in 200..299))
    /\ inFlight' = inFlight - 1
    /\ UNCHANGED <<apiKey, call, delay, attempts, ret, destBefore, waited,
                   onlyNet, cancel, okRet, other>>

\* ptk.RetryCtx looks at what fn returned
RetryNext ==
    /\ pc = "returned"
    /\ LET next == RetryCtxNext(err, attempts, RequestAttempts)
       IN  /\ pc' = IF next = "wait" THEN "wait" ELSE "done"
           /\ ret' = IF next = "fail" THEN err ELSE NoErr
           /\ okRet' = (next # "wait" /\ call.fn = "RequestOk"
                        /\ RequestOkBool(ret'))
    /\ UNCHANGED <<apiKey, api, call, delay, attempts, err, dest, destBefore,
                   last, waited, onlyNet, cancel, inFlight, openBodies,
                   got2xx, other>>

\* the wait of ptk.RetryCtx ends: the delay has passed, or the context is done
BackoffElapsed ==
    /\ pc = "wait"
    /\ IF CtxDone(cancel)
       THEN /\ pc' = "done"
            /\ ret' = MkErr("cancel", "")
            /\ UNCHANGED waited
       ELSE /\ pc' = "attempt"
            /\ waited' = delay
            /\ UNCHANGED ret
    /\ UNCHANGED <<apiKey, api, call, delay, attempts, err, dest, destBefore,
                   last, onlyNet, cancel, inFlight, openBodies, got2xx, okRet,
                   other>>

\* somebody outside asks for the call to be cancelled while it waits
Cancel ==
    /\ pc = "wait"
    /\ ~cancel
    /\ cancel' = TRUE
    /\ UNCHANGED <<pc, apiKey, api, call, delay, attempts, err, ret, dest,
                   destBefore, last, waited, onlyNet, inFlight, openBodies,
                   got2xx, okRet, other>>

\* Request has returned ret to its caller, which goes on
Returned ==
    /\ pc = "done"
    /\ pc' = "idle"
    /\ call' = NoCall
    /\ delay' = 0
    /\ attempts' = 0
    /\ err' = NoErr
    /\ ret' = NoErr
    /\ dest' = DestInit
    /\ destBefore' = DestInit
    /\ last' = NoLast
    /\ waited' = 0
    /\ onlyNet' = TRUE
    /\ cancel' = FALSE
    /\ inFlight' = 0
    /\ openBodies' = 0
    /\ got2xx' = FALSE
    /\ okRet' = FALSE
    /\ UNCHANGED <<apiKey, api, other>>

Init ==
    /\ pc = "idle"
    /\ apiKey = ClientKey
    /\ api = New(apiKey)
    /\ call = NoCall
    /\ delay = 0
    /\ attempts = 0
    /\ err = NoErr
    /\ ret = NoErr
    /\ dest = DestInit
    /\ destBefore = DestInit
    /\ last = NoLast
    /\ waited = 0
    /\ onlyNet = TRUE
    /\ cancel = FALSE
    /\ inFlight = 0
    /\ openBodies = 0
    /\ got2xx = FALSE
    /\ okRet = FALSE
    /\ other = NoOther

\* api.RequestOk(method, path), lines 159-166: Request without params, body
\* and response
RequestOk ==
    StartRequest("RequestOk", Methods, {<<"/", "l">>}, {ParamsNil}, {"nil"},
                 {"nil"})

Request ==
    StartRequest("Request", Methods, {<<"/", "l">>}, {ParamsNil, ParamsFooBar},
                 RequestBodies, {"nil", "ptr", "value"})

Attempt == RawRequest(RetryOutcomes)

\* the caller switches api.Debug, an exported field, between two calls
SetDebug ==
    /\ pc = "idle"
    /\ api' = [api EXCEPT !.Debug = ~api.Debug]
    /\ UNCHANGED <<pc, apiKey, call, delay, attempts, err, ret, dest,
                   destBefore, last, waited, onlyNet, cancel, inFlight,
                   openBodies, got2xx, okRet, other>>

Next ==
    \/ Request
    \/ RequestOk
    \/ SendRequest
    \/ Attempt
    \/ RetryNext
    \/ BackoffElapsed
    \/ Cancel
    \/ Returned
    \/ SetDebug

Spec == Init /\ [][Next]_vars

----------------------------------------------------------------------------
(* New on its own: every credential up to MaxKeyLen characters *)

Idle ==
    /\ call = NoCall
    /\ delay = 0
    /\ attempts = 0
    /\ err = NoErr
    /\ ret = NoErr
    /\ dest = DestInit
    /\ destBefore = DestInit
    /\ last = NoLast
    /\ waited = 0
    /\ onlyNet = TRUE
    /\ cancel = FALSE
    /\ inFlight = 0
    /\ openBodies = 0
    /\ got2xx = FALSE
    /\ okRet = FALSE
    /\ other = NoOther

InitNew ==
    /\ pc = "new"
    /\ apiKey \in StringsUpTo(MaxKeyLen)
    /\ api = NoAPI
    /\ Idle

\* api := gochimp3.New(apiKey)
CallNew ==
    /\ pc = "new"
    /\ api' = New(apiKey)
    /\ pc' = "idle"
    /\ UNCHANGED <<apiKey, call, delay, attempts, err, ret, dest, destBefore,
                   last, waited, onlyNet, cancel, inFlight, openBodies,
                   got2xx, okRet, other>>

NextNew == CallNew

SpecNew == InitNew /\ [][NextNew]_vars

----------------------------------------------------------------------------
(* One attempt on its own: rawRequest entered with every kind of argument *)

ParamKeys   == {<<"f">>, <<"b", "r">>}
\* "", "bz" and "a &"
ParamValues == {<<>>, <<"b", "z">>, <<"a", " ", "&">>}

\* what params.Params() can return
ParamMaps == UNION {[D -> ParamValues] : D \in SUBSET ParamKeys}

AllParams ==
    {ParamsNil, [kind |-> "typednil", m |-> EmptyValues],
     [kind |-> "value", m |-> ParamsFooBar.m]}
    \cup [kind : {"ptr"}, m : ParamMaps]

InitRaw ==
    /\ pc = "attempt"
    /\ apiKey = ClientKey
    /\ api = New(apiKey)
    /\ call \in [fn : {"Request"}, method : Methods, path : Paths,
                 params : AllParams, body : RequestBodies,
                 response : ResponseKinds]
    /\ delay = 1 * Minute
    /\ attempts = 0
    /\ err = NoErr
    /\ ret = NoErr
    /\ dest = DestInit
    /\ destBefore = DestInit
    /\ last = NoLast
    /\ waited = 0
    /\ onlyNet = TRUE
    /\ cancel = FALSE
    /\ inFlight = 0
    /\ openBodies = 0
    /\ got2xx = FALSE
    /\ okRet = FALSE
    /\ other = NoOther

NextRaw == SendRequest \/ RawRequest(Outcomes)

SpecRaw == InitRaw /\ [][NextRaw]_vars

----------------------------------------------------------------------------
(* Claims about the retry loop, checked under Spec *)

\* C1: a call to Request makes at least 1 and at most 5 attempts, stops
\* after the first attempt that returned no error, and starts no attempt
\* after a successful one: Request is never waiting for, or about to make,
\* a further attempt when the attempt before returned nil.
C1_AttemptsBounded ==
    /\ attempts <= 5
    /\ pc = "done" => attempts >= 1
    /\ (pc \in {"wait", "attempt"} /\ attempts >= 1) => last.err # NoErr
    /\ (pc = "done" /\ last.err = NoErr) => ret = NoErr

\* a call that succeeded on its third attempt has returned
C1_Witness ==
    pc = "done" /\ attempts = 3 /\ last.err = NoErr /\ ret = NoErr

\* C2: when the first N-1 attempts failed with a network error and the
\* transport answers attempt N with a 2xx status and a JSON body for the
\* destination, Request returns nil and the destination holds the members
\* of that body (a member the body does not give keeps its value).
BodyFits(body, T) ==
    \/ body.k = "null"
    \/ /\ body.k = "object"
       /\ \A x \in DOMAIN T : body.f[x].t \in {"absent", "null", T[x]}

C2_SuccessAfterNetworkErrors ==
    ( /\ pc = "done"
      /\ onlyNet
      /\ call.response = "ptr"
      /\ last.outcome.kind = "resp"
      /\ last.outcome.status \in 200..299
      /\ BodyFits(last.outcome.body, DestType) )
    => /\ ret = NoErr
       /\ attempts \in 1..5
       /\ \A x \in DOMAIN DestType :
             dest[x] = IF last.outcome.body.f[x].t = DestType[x]
                       THEN last.outcome.body.f[x]
                       ELSE DestInit[x]

\* four network errors, then 200 {"id":"1"} on the fifth attempt
C2_Witness ==
    /\ pc = "done" /\ attempts = 5 /\ onlyNet /\ call.response = "ptr"
    /\ last.outcome.kind = "resp" /\ last.outcome.body = BodyList
    /\ ret = NoErr /\ dest.id = JS("1")

\* C3: when all 5 attempts of a call failed, Request returns exactly the
\* error the fifth attempt returned, not wrapped and not an earlier one.
C3_LastError ==
    (pc = "done" /\ attempts = 5 /\ last.err # NoErr) => ret = last.err

\* all five failed; an earlier attempt failed decoding {"id":"2","name":7},
\* the last one in the network, and the network error is what is returned
C3_Witness ==
    /\ pc = "done" /\ attempts = 5
    /\ dest.id = JS("2")
    /\ last.err = MkErr("net", "refused")
    /\ ret = MkErr("net", "refused")

\* C4: every kind of error an attempt returns is handled alike: no error
\* ends the loop before the fifth attempt, and an attempt that failed with
\* fewer than 5 made is followed by a wait for the next one.
C4_EveryErrorRetried ==
    /\ (pc = "done" /\ attempts < 5) => last.err = NoErr
    /\ (pc = "done" /\ ret # NoErr) => attempts = 5
    /\ (pc = "wait") => (last.err # NoErr /\ attempts < 5)

\* a decoded APIError with status 404 is waiting for its fifth attempt
C4_Witness ==
    /\ pc = "wait" /\ attempts = 4
    /\ last.err.kind = "api" /\ last.err.api.status = JN(404)

\* C5: a cancellation signal raised while Request waits between attempts
\* aborts the loop: no further attempt starts, and Request returns an error
\* of the cancellation kind.
C5_CancelAborts ==
    cancel => /\ pc \in {"wait", "done"}
              /\ pc = "done" => ret.kind = "cancel"

----------------------------------------------------------------------------
(* Claims about one attempt, checked under SpecRaw *)

\* the attempt got a response from the transport and read its body
GotResponse ==
    pc \in {"returned", "panic"} /\ last.outcome.kind = "resp"

\* C7: for a response whose status is outside 200..299 the attempt returns
\* a non-nil error: an APIError with the decoded status, type, title and
\* detail when the body decodes as APIError JSON, and the decode failure,
\* not an APIError, when the body is not valid JSON or is empty.
C7_Non2xxIsError ==
    (GotResponse /\ last.outcome.status \notin 200..299) =>
       /\ pc = "returned"
       /\ err # NoErr
       /\ dest = destBefore
       /\ BodyFits(last.outcome.body, APIErrorType) =>
             /\ err.kind = "api"
             /\ \A x \in DOMAIN APIErrorType :
                   err.api[x] =
                      IF last.outcome.body.f[x].t = APIErrorType[x]
                      THEN last.outcome.body.f[x]
                      ELSE ZeroOf(APIErrorType)[x]
       /\ last.outcome.body.k \in {"empty", "invalid"} =>
             /\ err.kind = "syntax"
             /\ err.api = ZeroOf(APIErrorType)

\* status 300 with an APIError body gave an APIError of status 404
C7_Witness ==
    /\ GotResponse /\ last.outcome.status = 300
    /\ last.outcome.body = BodyAPIError
    /\ err.kind = "api" /\ err.api.status = JN(404) /\ err.api.detail = JS("d")

\* C8: on a 2xx response the attempt returns nil without decoding and
\* leaves the destination as it was whenever the destination is nil, is a
\* typed-nil pointer, or the body is empty; the body is decoded only for a
\* non-nil destination and a non-empty body.
C8_NoDecodeOn2xx ==
    (GotResponse /\ last.outcome.status \in 200..299) =>
       /\ (call.response \in {"nil", "typednil"} \/ last.outcome.body.k = "empty")
             => /\ pc = "returned"
                /\ err = NoErr
                /\ ~last.unmarshalled
                /\ dest = destBefore
       /\ last.unmarshalled =>
             /\ call.response \notin {"nil", "typednil"}
             /\ last.outcome.body.k # "empty"

\* the query string of the URL as http.NewRequest parsed it
PathQuery == URLRawQuery(RequestURL(api.endpoint, call.path))

\* params is nil or a typed-nil pointer: Params() is not called and the
\* query string stays as it was
ParamsSkipped ==
    (pc = "returned" /\ last.built /\ call.params.kind \in {"nil", "typednil"})
    => (~last.paramsCalled /\ last.rawQuery = PathQuery)

\* every key of the mapping with a non-empty value is in the query string
\* with that value
ParamsSent ==
    (pc = "returned" /\ last.paramsCalled) =>
       \A k \in DOMAIN call.params.m :
          call.params.m[k] # <<>> =>
             /\ k \in DOMAIN ParseQuery(last.rawQuery)
             /\ ParseQuery(last.rawQuery)[k] = <<call.params.m[k]>>

\* C10 as it was stated: the outgoing query string has key=value for every
\* key of params.Params() with a non-empty value and no entry for a key
\* whose value is the empty string; for nil or typed-nil params, Params()
\* is not called and the query string stays as it was.
C10_QueryOriginal ==
    /\ ParamsSkipped
    /\ ParamsSent
    /\ (pc = "returned" /\ last.paramsCalled) =>
          \A k \in DOMAIN call.params.m :
             call.params.m[k] = <<>> => k \notin DOMAIN ParseQuery(last.rawQuery)

\* C10, amended: as above, but a key whose value is the empty string gets no
\* entry from params: the query string holds it only if the query string of
\* the path held it, and then with the values it had there.
C10_QueryParams ==
    /\ ParamsSkipped
    /\ ParamsSent
    /\ (pc = "returned" /\ last.paramsCalled) =>
          \A k \in DOMAIN call.params.m :
             call.params.m[k] = <<>> =>
                IF k \in DOMAIN ParseQuery(PathQuery)
                THEN /\ k \in DOMAIN ParseQuery(last.rawQuery)
                     /\ ParseQuery(last.rawQuery)[k] = ParseQuery(PathQuery)[k]
                ELSE k \notin DOMAIN ParseQuery(last.rawQuery)

\* {"f": "", "br": "bz"} on the path /l?f=x: the query string is br=bz&f=x
C10_Witness ==
    /\ pc = "returned" /\ last.paramsCalled
    /\ call.params.m = ParamsFooBar.m
    /\ PathQuery = <<"f", "=", "x">>
    /\ last.rawQuery = <<"b", "r", "=", "b", "z", "&", "f", "=", "x">>

----------------------------------------------------------------------------
(* Claims about New, checked under SpecNew *)

\* the longest suffix of s made of word characters
TrailingWordRun(s) ==
    LET ok == {i \in 1..(Len(s) + 1) : \A j \in i..Len(s) : IsWordChar(s[j])}
    IN  SubSeq(s, CHOOSE i \in ok : \A j \in ok : i <= j, Len(s))

\* s is <prefix>-<suffix> with suffix a non-empty run of word characters
HasSuffix(s) ==
    /\ \E i \in 1..Len(s) : s[i] = "-"
    /\ TrailingWordRun(s) # <<>>
    /\ s[Len(s) - Len(TrailingWordRun(s))] = "-"

EndpointOf(dc) ==
    <<"h", "t", "t", "p", "s", ":", "/", "/">> \o dc
    \o <<".", "a", "p", "i", ".", "m", "a", "i", "l", "c", "h", "i", "m", "p",
         ".", "c", "o", "m", "/", "3", ".", "0">>

\* C9: for a credential <prefix>-<suffix>, suffix a non-empty run of word
\* characters of any length, the datacenter New derives is <suffix>; for a
\* credential with no hyphen it is the trailing run of word characters; the
\* endpoint is https://<datacenter>.api.mailchimp.com/3.0.
C9_Datacenter ==
    pc = "idle" =>
       /\ HasSuffix(apiKey) => api.endpoint = EndpointOf(TrailingWordRun(apiKey))
       /\ (\A i \in 1..Len(apiKey) : apiKey[i] # "-") =>
             api.endpoint = EndpointOf(TrailingWordRun(apiKey))


----------------------------------------------------------------------------
(* Claims about one attempt, continued (SpecRaw) *)

\* C11: every failure of Request reaches the caller as a returned error and
\* none aborts the process: for every kind of params and of response
\* destination (untyped nil, typed-nil pointer, non-nil pointer, non-pointer
\* value) an attempt ends by returning nil or an error, never by a panic.
C11_NoPanic ==
    /\ pc # "panic"
    /\ (attempts >= 1 /\ pc # "inflight") => (pc = "returned" /\ ~last.panic)


----------------------------------------------------------------------------
(* Claims about RequestOk and about the attempts of one call (Spec) *)

\* C12: RequestOk(method, path) returns (true, nil) exactly when one of its
\* at most 5 attempts received a response with a 2xx status, and (false, err)
\* with a non-nil err otherwise; it never returns (true, non-nil) or
\* (false, nil), and no attempt of it decodes a response body.
C12_RequestOk ==
    call.fn = "RequestOk" =>
        /\ ~last.unmarshalled
        /\ attempts <= RequestAttempts
        /\ pc = "done" => /\ okRet <=> got2xx
                          /\ okRet <=> ret = NoErr


\* C13: the attempts of one call are strictly sequential: at no time are two
\* requests of the call in flight, a request is in flight only while its
\* attempt waits for the transport, and an attempt starts only when no
\* request is in flight and, if it is not the first one, only after the
\* attempt before it has returned an error and the backoff wait has ended.
C13_Sequential ==
    /\ [](/\ inFlight \in {0, 1}
          /\ inFlight = 1 <=> pc = "inflight")
    /\ [][attempts' = attempts + 1 =>
              /\ pc = "attempt"
              /\ inFlight = 0
              /\ attempts >= 1 => (err # NoErr /\ waited = delay)]_vars

C13_Witness ==
    /\ pc = "inflight"
    /\ attempts = 3
    /\ inFlight = 1
    /\ err # NoErr
    /\ waited = delay


\* what the same attempt returns when only api.Debug is the other way round
DebugTwin == rawRequest([api EXCEPT !.Debug = ~api.Debug], call, destBefore,
                        last.outcome)

\* C14: Debug changes what is logged and nothing else: of two runs with the
\* same arguments and the same transport outcomes that differ only in
\* api.Debug, every attempt returns the same error (or panics in both) and
\* leaves the same content in the destination, and the retry loop takes the
\* same decision after it, so that both runs make the same number of
\* attempts.
C14_DebugOnlyLogs ==
    pc \in {"returned", "panic"} =>
        /\ DebugTwin.err = last.err
        /\ DebugTwin.dest = dest
        /\ DebugTwin.panic = last.panic
        /\ RetryCtxNext(RequestFn(DebugTwin.err), attempts, RequestAttempts)
               = RetryCtxNext(err, attempts, RequestAttempts)

C14_Witness ==
    /\ pc = "returned"
    /\ api.Debug
    /\ attempts = 2
    /\ last.outcome.kind = "resp"
    /\ last.unmarshalled
    /\ dest # destBefore
    /\ "DumpResponse" \in {last.log[i] : i \in DOMAIN last.log}
    /\ DebugTwin.log # last.log


\* C15: the body of every response an attempt received is closed by the time
\* the attempt ends, whichever way it ends (read error, 2xx without decoding,
\* 2xx with a decoding that succeeds or fails, non-2xx), and a body is opened
\* only by a response: after any number of attempts the call has no response
\* body open.
C15_BodyClosed ==
    /\ openBodies = 0
    /\ last.opened <=> last.outcome.kind \in {"readerr", "resp"}
    /\ last.opened => last.closed

C15_Witness ==
    /\ pc = "returned"
    /\ attempts = RequestAttempts
    /\ last.err.kind = "read"
    /\ last.opened
    /\ last.closed
    /\ openBodies = 0


----------------------------------------------------------------------------
(* The caller changes the exported fields of the API value between calls *)

\* "ba-us3": a key of another datacenter
OtherKey == <<"b", "a", "-", "u", "s", "3">>

\* the caller assigns to exported fields of the API value it holds
CallerSets(a) ==
    /\ pc = "idle"
    /\ a # api
    /\ api' = a
    /\ UNCHANGED <<pc, apiKey, call, delay, attempts, err, ret, dest,
                   destBefore, last, waited, onlyNet, cancel, inFlight,
                   openBodies, got2xx, okRet, other>>

SetKey == \E k \in {ClientKey, OtherKey} : CallerSets([api EXCEPT !.Key = k])

SetUser == \E u \in {"gochimp3", "me"} : CallerSets([api EXCEPT !.User = u])

\* seconds
SetTimeout == \E t \in {0, 30} : CallerSets([api EXCEPT !.Timeout = t])

SetTransport ==
    \E t \in {"default", "custom"} : CallerSets([api EXCEPT !.Transport = t])

FieldOutcomes == OutcomesOf({200, 404}, {BodyList, BodyAPIError})

RequestFields ==
    StartRequest("Request", {"GET"}, Paths, {ParamsNil}, {"nil"}, {"ptr"})

AttemptFields == RawRequest(FieldOutcomes)

NextFields ==
    \/ SetKey
    \/ SetUser
    \/ SetTimeout
    \/ SetTransport
    \/ SetDebug
    \/ RequestFields
    \/ SendRequest
    \/ AttemptFields
    \/ RetryNext
    \/ BackoffElapsed
    \/ Returned

SpecFields == Init /\ [][NextFields]_vars

\* C16: the endpoint is computed in New and nowhere else: after any calls of
\* Request and whatever the caller has assigned to Key, User, Timeout,
\* Transport and Debug, api.endpoint is still the endpoint of the credential
\* that was handed to New, and the URL of every attempt is that endpoint
\* followed by the path.
C16_EndpointFixed ==
    /\ api.endpoint = NewEndpoint(apiKey)
    /\ pc \in {"returned", "panic"} =>
           last.url = NewEndpoint(apiKey) \o call.path

C16_Witness ==
    /\ pc = "returned"
    /\ attempts = 2
    /\ last.sent
    /\ api.Key = OtherKey
    /\ api.User = "me"
    /\ api.Timeout = 30
    /\ api.Transport = "custom"
    /\ api.Debug
    /\ NewEndpoint(api.Key) # api.endpoint
    /\ last.url = api.endpoint \o call.path


\* C17: a body that is not nil and cannot be serialized makes every attempt
\* return the serialization error before a request is built or handed to the
\* transport: such a call never has a request in flight and makes no
\* transport call in any of its attempts.
C17_MarshalErrorFirst ==
    call.body = "unserializable" =>
        /\ pc # "inflight"
        /\ inFlight = 0
        /\ ~last.built
        /\ ~last.sent
        /\ attempts >= 1 => (last.err.kind = "marshal" /\ pc # "panic")

C17_Witness ==
    /\ call.body = "unserializable"
    /\ pc = "done"
    /\ attempts = RequestAttempts
    /\ ret.kind = "marshal"
    /\ ~last.sent


----------------------------------------------------------------------------
(* Two calls of Request run concurrently on the same API value, each with a
   response destination of its own: the call of the variables above and the
   call of the record other *)

TwoOutcomes ==
    {[kind |-> "neterr", e |-> "refused", status |-> 0, body |-> BodyEmpty],
     [kind |-> "resp", e |-> "", status |-> 200, body |-> BodyList],
     [kind |-> "resp", e |-> "", status |-> 404, body |-> BodyAPIError]}

RequestTwo ==
    StartRequest("Request", {"GET"}, {<<"/", "l">>}, {ParamsNil}, {"nil"},
                 {"ptr"})

AttemptTwo == RawRequest(TwoOutcomes)

\* the variables of the first call
callVars == <<pc, call, delay, attempts, err, ret, dest, destBefore, last,
              waited, onlyNet, cancel, inFlight, openBodies, got2xx, okRet>>

\* the second goroutine calls api.Request("GET", "/l?f=x", nil, nil, &other)
OtherRequest ==
    /\ other.pc = "idle"
    /\ \E d \in RequestDelays :
          other' = [NoOther EXCEPT
                       !.pc = "attempt",
                       !.delay = d,
                       !.call = [fn |-> "Request", method |-> "GET",
                                 path |-> <<"/", "l", "?", "f", "=", "x">>,
                                 params |-> ParamsNil, body |-> "nil",
                                 response |-> "ptr"]]
    /\ UNCHANGED <<apiKey, api, callVars>>

\* the second call after its attempt ended with r
OtherEndAttempt(o, r) ==
    [o EXCEPT !.last = r, !.dest = r.dest, !.err = RequestFn(r.err),
              !.pc = IF r.panic THEN "panic" ELSE "returned"]

\* SendRequest of the second call
OtherSendRequest ==
    /\ other.pc = "attempt"
    /\ LET r == rawRequest(api, other.call, other.dest, NoOutcome)
           o == [other EXCEPT !.destBefore = other.dest,
                              !.attempts = other.attempts + 1]
       IN  IF r.sent
           THEN /\ other' = [o EXCEPT !.pc = "inflight"]
                /\ UNCHANGED api
           ELSE /\ other' = OtherEndAttempt(o, r)
                /\ api' = CallerAPI(api, r)
    /\ UNCHANGED <<apiKey, callVars>>

\* RawRequest of the second call
OtherRawRequest ==
    /\ other.pc = "inflight"
    /\ \E o \in TwoOutcomes :
          LET r == rawRequest(api, other.call, other.dest, o)
          IN  /\ other' = OtherEndAttempt(other, r)
              /\ api' = CallerAPI(api, r)
    /\ UNCHANGED <<apiKey, callVars>>

\* RetryNext of the second call
OtherRetryNext ==
    /\ other.pc = "returned"
    /\ LET next == RetryCtxNext(other.err, other.attempts, RequestAttempts)
       IN  other' = [other EXCEPT
                        !.pc = IF next = "wait" THEN "wait" ELSE "done",
                        !.ret = IF next = "fail" THEN other.err ELSE NoErr]
    /\ UNCHANGED <<apiKey, api, callVars>>

\* BackoffElapsed of the second call
OtherBackoffElapsed ==
    /\ other.pc = "wait"
    /\ other' = [other EXCEPT !.pc = "attempt"]
    /\ UNCHANGED <<apiKey, api, callVars>>

NextTwo ==
    \/ RequestTwo
    \/ SendRequest
    \/ AttemptTwo
    \/ RetryNext
    \/ BackoffElapsed
    \/ OtherRequest
    \/ OtherSendRequest
    \/ OtherRawRequest
    \/ OtherRetryNext
    \/ OtherBackoffElapsed

SpecTwo == Init /\ [][NextTwo]_vars


\* C18: two calls of Request that run concurrently on the same API value
\* with distinct response destinations are independent.  Neither changes a
\* field of the API value; what an attempt of either call returns and writes
\* is what rawRequest gives for the arguments and the transport outcome of
\* that call alone; each call returns nil or the error of its own last
\* attempt; and a step of one call leaves the state of the other call, its
\* destination included, as it was.
C18_Independent ==
    /\ [](/\ api = New(apiKey)
          /\ pc \in {"returned", "wait", "done"} =>
                 last = rawRequest(New(apiKey), call, destBefore, last.outcome)
          /\ other.pc \in {"returned", "wait", "done"} =>
                 other.last = rawRequest(New(apiKey), other.call,
                                         other.destBefore, other.last.outcome)
          /\ pc = "done" => (ret = RequestFn(last.err) /\ dest = last.dest)
          /\ other.pc = "done" => /\ other.ret = RequestFn(other.last.err)
                                  /\ other.dest = other.last.dest)
    /\ [][/\ other' # other => UNCHANGED callVars
          /\ callVars' # callVars => other' = other]_vars

C18_Witness ==
    /\ pc = "inflight"
    /\ other.pc = "inflight"
    /\ attempts = 2
    /\ other.attempts = 3
    /\ last.err.kind = "net"
    /\ other.last.err.kind = "api"

\* both calls have returned, one with nil and its destination filled, the
\* other with an error and its destination untouched
C18_BothDone ==
    /\ pc = "done"
    /\ other.pc = "done"
    /\ ret = NoErr
    /\ dest # DestInit
    /\ other.ret # NoErr
    /\ other.dest = DestInit


----------------------------------------------------------------------------
(* Implicit claims: C19 under Spec, C20 under SpecRaw *)

\* C19: the backoff delay is drawn once per call of Request, when the call
\* starts and before its first attempt, from 1 to 9 minutes; no step of the
\* call in progress changes it, and every wait between two attempts of the
\* call lasts that same delay.
C19_DelayDrawnOnce ==
    /\ [](pc \notin {"idle", "new"} =>
              /\ delay \in RequestDelays
              /\ waited \in {0, delay}
              /\ (attempts >= 2 \/ (attempts = 1 /\ pc = "attempt")) =>
                     waited = delay)
    /\ [][(pc # "idle" /\ pc' # "idle") => delay' = delay]_vars

C19_Witness ==
    /\ pc = "inflight"
    /\ attempts = RequestAttempts
    /\ delay = 9 * Minute
    /\ waited = delay

\* C20: an attempt that ends with a serialization error, a request
\* construction error, a network error, a body read error or a non-2xx
\* response does not write the response destination: the destination differs
\* from what it was when the attempt started only if the attempt received a
\* response with a 2xx status and a non-empty body, and decoded it.
C20_DestWrittenOn2xx ==
    pc \in {"returned", "panic"} =>
        /\ last.err.kind \in {"marshal", "newrequest", "net", "read"} =>
               dest = destBefore
        /\ (last.outcome.kind = "resp" /\ last.outcome.status \notin 200..299) =>
               dest = destBefore
        /\ dest # destBefore =>
               /\ last.outcome.kind = "resp"
               /\ last.outcome.status \in 200..299
               /\ last.outcome.body # BodyEmpty
               /\ last.unmarshalled

C20_Witness ==
    /\ pc = "returned"
    /\ dest # destBefore
    /\ last.outcome.status = 299
    /\ last.unmarshalled
    /\ last.err # NoErr

====
